---- MODULE Spec2Model ----
(***************************************************************************)
(* State-machine model of the VectorDB engine (vectordb/vectorstore.rs):   *)
(* the collection registry, the per-collection metadata and HNSW index,    *)
(* the RocksDB key-value store and the atomic id counter, driven by        *)
(* concurrent calls of the public API.  Every action is one atomic step of *)
(* a handler: a lock-protected access, an atomic fetch_add, one KV         *)
(* operation or one ANN operation.                                         *)
(***************************************************************************)
EXTENDS Integers, Sequences, FiniteSets, TLC

(* ------------------------------ bounds -------------------------------- *)
\* API calls started in one run of Spec.
MaxCalls == 3
\* Largest top_k passed to search.
MaxK == 2
\* Documents in one add_documents request.
MaxBatch == 4
\* Largest value of num_cpus::get().
MaxCpus == 2
\* Largest dim passed to optimize_hnsw_params.
MaxDim == 800
\* Largest top_k for which ef_search is computed.
MaxTopK == 64

(* ------------------------------ inputs -------------------------------- *)
\* Option<u64>::None of add_document's id parameter.
NoId == -1

Procs == {"p1", "p2"}
\* The rayon tasks of one add_documents call, one per chunk.
ChunkWorker(i) == "k" \o ToString(i)
ChunkIds == {ChunkWorker(i) : i \in 1..MaxBatch}
Workers == Procs \cup ChunkIds
Names == {"a", "b"}
Metrics == {"Euclidean", "Cosine", "Dot"}

CreateInputs ==
    { [name |-> "a", metric |-> "Euclidean", dim |-> 2],
      [name |-> "a", metric |-> "Cosine",    dim |-> 1],
      [name |-> "b", metric |-> "Dot",       dim |-> 2] }

\* AddDocumentRequest values: auto and client-supplied ids (2 is the first id
\* the allocator hands to a document once one collection exists), embeddings
\* of length 2 and of length 1.
DocInputs ==
    { [id |-> NoId, embedding |-> <<1, 0>>, metadata |-> "m1", content |-> "c1"],
      [id |-> 2,    embedding |-> <<0, 1>>, metadata |-> "m2", content |-> "c2"],
      [id |-> 2,    embedding |-> <<1>>,    metadata |-> "m3", content |-> "c3"] }

Queries == { <<1, 0>>, <<1>> }

(* --------------------------- pure functions --------------------------- *)
Put(f, k, v) == [x \in DOMAIN f \cup {k} |-> IF x = k THEN v ELSE f[x]]

RECURSIVE SumTo(_, _)
SumTo(f, n) == IF n = 0 THEN 0 ELSE f[n] + SumTo(f, n - 1)

Min(a, b) == IF a < b THEN a ELSE b
Max(a, b) == IF a > b THEN a ELSE b

\* Mutant: the key leaves the collection id out.
KeyPrefixNoCollection(cid, did) == ToString(did)

\* format!("{}:{}", collection_id, doc_id)
KeyPrefix(cid, did) == ToString(cid) \o ":" \o ToString(did)
VecKey(cid, did) == "vec:" \o KeyPrefix(cid, did)
MetaKey(cid, did) == "meta:" \o KeyPrefix(cid, did)
ContentKey(cid, did) == "content:" \o KeyPrefix(cid, did)
ColKey(name) == "col:" \o name

\* rkyv::to_bytes of Embedding { data }: the bytes are written out as text.
EncodeEmbedding(emb) == "rkyv" \o ToString(emb)

\* serde_json::to_vec(&meta)
MetaJson(m) ==
    "{id:" \o ToString(m.id) \o ",name:" \o m.name \o ",dim:" \o ToString(m.dim)
      \o ",metric:" \o m.metric \o ",doc_count:" \o ToString(m.doc_count) \o "}"

\* format!("{:?}", d.id) for Option<i32>
DebugId(id) == IF id = NoId THEN "None" ELSE "Some(" \o ToString(id) \o ")"

\* format!("Doc: {:?}: {}", d.id, e)
DocError(id, e) == "Doc: " \o DebugId(id) \o ": " \o e

\* Mutant: the thresholds are compared with >=.
optimize_hnsw_params_ge(dim) ==
    LET m == IF dim >= 768 THEN 8 ELSE IF dim >= 384 THEN 12 ELSE 16
    IN  <<m, m * 2, IF dim >= 768 THEN 100 ELSE 150>>

\* (M, max_M0, ef_construction) chosen from the dimensionality.
optimize_hnsw_params(dim) ==
    LET m == IF dim > 768 THEN 8 ELSE IF dim > 384 THEN 12 ELSE 16
    IN  <<m, m * 2, IF dim > 768 THEN 100 ELSE 150>>

Dot(a, b) == SumTo([i \in 1..Len(a) |-> a[i] * b[i]], Len(a))

\* The distance of the index variant.  DistL2 is kept squared (same order);
\* DistCosine and DistDot coincide on the unit vectors the inputs use.
Distance(metric, a, b) ==
    IF metric = "Euclidean"
    THEN SumTo([i \in 1..Len(a) |-> (a[i] - b[i]) * (a[i] - b[i])], Len(a))
    ELSE 1 - Dot(a, b)

\* let ef_search = std::cmp::max(2 * top_k, 50)
ef_search(top_k) == Max(2 * top_k, 50)

\* Whether hits (a sequence of positions of idx) is a k-nearest answer:
\* distinct points, ascending distance, nothing closer left out.
IsNearest(metric, idx, query, hits) ==
    LET d(i) == Distance(metric, idx[i].emb, query)
    IN  /\ \A i, j \in 1..Len(hits) : i < j => hits[i] # hits[j] /\ d(hits[i]) <= d(hits[j])
        /\ \A i \in 1..Len(hits) : \A j \in (1..Len(idx)) \ {hits[x] : x \in 1..Len(hits)} :
              d(hits[i]) <= d(j)

\* Hnsw::search(query, top_k, ef_search): the possible answers, each a sequence
\* of Neighbour {d_id, distance}.
IndexSearch(metric, idx, query, top_k) ==
    LET n == Min(top_k, Len(idx))
    IN  { [i \in 1..n |-> [d_id |-> idx[h[i]].id, distance |-> Distance(metric, idx[h[i]].emb, query)]] :
            h \in { s \in [1..n -> 1..Len(idx)] : IsNearest(metric, idx, query, s) } }

\* Hnsw::insert((emb, id)): a new point; an id already present is not replaced.
IndexInsert(idx, id, emb) == Append(idx, [id |-> id, emb |-> emb])

\* docs.len() / num_cpus::get(), at least 1
ChunkSize(n, cpus) == Max(n \div cpus, 1)
\* number of chunks par_chunks(chunk_size) yields
NumChunks(n, cs) == (n + cs - 1) \div cs

(* ------------------------------ state --------------------------------- *)
VARIABLES
    collections,  \* registry: name -> id of the entry it holds (the Arc)
    meta,         \* entry id -> CollectionMeta
    index,        \* entry id -> the points of its HNSW index
    id_counter,   \* AtomicU64
    kv,           \* RocksDB: key -> value bytes
    regReaders,   \* workers holding the registry read lock across steps
    pc,           \* worker -> position in its handler
    call,         \* worker -> the call in progress (operation and arguments)
    loc,          \* worker -> locals of the call in progress
    ret,          \* process -> what its last call returned
    calls,        \* calls started so far
    ncpu,         \* num_cpus::get()
    batch,        \* the add_documents call in progress
    chunk,        \* chunk id -> progress and results of that rayon task
    createOk,     \* history: name -> number of create_collection calls that returned Ok
    addOk,        \* history: entry id -> number of add_document calls that returned Ok
    okDocs,       \* history: the add_document calls that returned Ok
    minted,       \* history: the values generate_id returned, in the order of the fetch_adds
    kvCommits     \* history: entry id -> number of document batches db.write committed

vars == <<collections, meta, index, id_counter, kv, regReaders, pc, call, loc, ret,
          calls, ncpu, batch, chunk, createOk, addOk, okDocs, minted, kvCommits>>

shared == <<collections, meta, index, id_counter, kv>>
hist == <<createOk, addOk, okDocs, minted, kvCommits>>
batchVars == <<batch, chunk>>

NoCall == [op |-> "none"]
\* meta_guard: the entry whose meta lock the local `meta` read guard holds, 0
\* when the guard is not alive
NoLoc == [entry |-> 0, id |-> 0, hits |-> <<>>, out |-> <<>>, todo |-> {}, acc |-> <<>>,
          meta_guard |-> 0]
\* stored is history: position in docs -> id its KV batch was committed under
NoBatch == [active |-> FALSE, caller |-> "", name |-> "", docs |-> <<>>, nchunks |-> 0,
            stored |-> <<>>]
NoChunk == [lo |-> 1, hi |-> 0, pos |-> 1, ids |-> <<>>, errs |-> <<>>]

\* VectorDB::new on an empty data directory.
Init ==
    /\ collections = <<>>
    /\ meta = <<>>
    /\ index = <<>>
    /\ id_counter = 1
    /\ kv = <<>>
    /\ regReaders = {}
    /\ pc = [w \in Workers |-> IF w \in Procs THEN "idle" ELSE "off"]
    /\ call = [w \in Workers |-> NoCall]
    /\ loc = [w \in Workers |-> NoLoc]
    /\ ret = [p \in Procs |-> NoCall]
    /\ calls = 0
    /\ ncpu = 1
    /\ batch = NoBatch
    /\ chunk = [k \in ChunkIds |-> NoChunk]
    /\ createOk = [n \in Names |-> 0]
    /\ addOk = <<>>
    /\ okDocs = {}
    /\ minted = <<>>
    /\ kvCommits = <<>>

CanCall(p) == p \in Procs /\ pc[p] = "idle" /\ calls < MaxCalls

\* A process returns r from its call.
Return(p, r) ==
    /\ pc' = [pc EXCEPT ![p] = "idle"]
    /\ call' = [call EXCEPT ![p] = NoCall]
    /\ loc' = [loc EXCEPT ![p] = NoLoc]
    /\ ret' = [ret EXCEPT ![p] = r]

Goto(w, label, c, l) ==
    /\ pc' = [pc EXCEPT ![w] = label]
    /\ call' = [call EXCEPT ![w] = c]
    /\ loc' = [loc EXCEPT ![w] = l]

(* -------------------------- create_collection ------------------------- *)
\* Mutant: the duplicate check never finds the name.
ContainsKeyNever(reg, name) == FALSE

\* self.collections.read().unwrap().contains_key(name)
ContainsKey(reg, name) == name \in DOMAIN reg

\* if .. contains_key(name) { return Err("duplicate".into()) }
CreateCheck(p) ==
    /\ CanCall(p)
    /\ \E c \in CreateInputs :
         LET cl == [op |-> "create_collection", name |-> c.name, metric |-> c.metric, dim |-> c.dim]
         IN  IF ContainsKey(collections, c.name)
             THEN Return(p, [op |-> "create_collection", name |-> c.name, tag |-> "Err", err |-> "duplicate"])
             ELSE Goto(p, "cc_mint", cl, NoLoc) /\ UNCHANGED ret
    /\ calls' = calls + 1
    /\ UNCHANGED <<shared, regReaders, ncpu, batchVars, hist>>

\* let id = self.generate_id(): id_counter.fetch_add(1)
CreateMint(p) ==
    /\ pc[p] = "cc_mint"
    /\ id_counter' = id_counter + 1
    /\ minted' = Append(minted, id_counter)
    /\ Goto(p, "cc_insert", call[p], [loc[p] EXCEPT !.id = id_counter])
    /\ UNCHANGED <<collections, meta, index, kv, regReaders, ret, calls, ncpu, batchVars,
                   createOk, addOk, okDocs, kvCommits>>

NewMeta(c, id) == [id |-> id, name |-> c.name, dim |-> c.dim, metric |-> c.metric, doc_count |-> 0]

\* self.collections.write().unwrap().insert(name, entry)
CreateInsert(p) ==
    /\ pc[p] = "cc_insert"
    /\ regReaders = {}
    /\ collections' = Put(collections, call[p].name, loc[p].id)
    /\ meta' = Put(meta, loc[p].id, NewMeta(call[p], loc[p].id))
    /\ index' = Put(index, loc[p].id, <<>>)
    /\ Goto(p, "cc_put", call[p], loc[p])
    /\ UNCHANGED <<id_counter, kv, regReaders, ret, calls, ncpu, batchVars, hist>>

\* self.db.put(format!("col:{}", name), to_vec(&meta)).map_err(..)?; Ok(meta)
CreatePut(p) ==
    /\ pc[p] = "cc_put"
    /\ LET m == NewMeta(call[p], loc[p].id)
       IN  \/ /\ kv' = Put(kv, ColKey(call[p].name), MetaJson(m))
              /\ Return(p, [op |-> "create_collection", name |-> call[p].name, tag |-> "Ok", meta |-> m])
              /\ createOk' = [createOk EXCEPT ![call[p].name] = @ + 1]
           \/ /\ Return(p, [op |-> "create_collection", name |-> call[p].name, tag |-> "Err", err |-> "storage"])
              /\ UNCHANGED <<kv, createOk>>
    /\ UNCHANGED <<collections, meta, index, id_counter, regReaders, calls, ncpu, batchVars,
                   addOk, okDocs, minted, kvCommits>>

(* ----------------- get_collection_by_name, list_collections ------------ *)
\* self.collections.read().unwrap().get(name).cloned(): the registry guard is a
\* temporary of the tail expression and lives until the function returns.
GetLookup(p) ==
    /\ CanCall(p)
    /\ \E n \in Names :
         IF n \in DOMAIN collections
         THEN /\ Goto(p, "gc_meta", [op |-> "get_collection_by_name", name |-> n],
                      [NoLoc EXCEPT !.entry = collections[n]])
              /\ regReaders' = regReaders \cup {p}
              /\ UNCHANGED ret
         ELSE /\ Return(p, [op |-> "get_collection_by_name", name |-> n, tag |-> "Err",
                            err |-> "Collection not found"])
              /\ UNCHANGED regReaders
    /\ calls' = calls + 1
    /\ UNCHANGED <<shared, ncpu, batchVars, hist>>

\* Mutant: the registry read guard is not released on return.
GetMetaKeepGuard(p) ==
    /\ pc[p] = "gc_meta"
    /\ Return(p, [op |-> "get_collection_by_name", name |-> call[p].name, tag |-> "Ok",
                  meta |-> meta[loc[p].entry]])
    /\ UNCHANGED <<shared, regReaders, calls, ncpu, batchVars, hist>>

\* .map(|e| e.meta.read().unwrap().clone())
GetMeta(p) ==
    /\ pc[p] = "gc_meta"
    /\ Return(p, [op |-> "get_collection_by_name", name |-> call[p].name, tag |-> "Ok",
                  meta |-> meta[loc[p].entry]])
    /\ regReaders' = regReaders \ {p}
    /\ UNCHANGED <<shared, calls, ncpu, batchVars, hist>>

\* self.collections.read().unwrap().values()
ListStart(p) ==
    /\ CanCall(p)
    /\ IF DOMAIN collections = {}
       THEN /\ Return(p, [op |-> "list_collections", tag |-> "Ok", metas |-> <<>>])
            /\ UNCHANGED regReaders
       ELSE /\ Goto(p, "li_read", [op |-> "list_collections"],
                    [NoLoc EXCEPT !.todo = DOMAIN collections])
            /\ regReaders' = regReaders \cup {p}
            /\ UNCHANGED ret
    /\ calls' = calls + 1
    /\ UNCHANGED <<shared, ncpu, batchVars, hist>>

\* .map(|e| e.meta.read().unwrap().clone()).collect(): one entry per step, in the
\* map's (unspecified) iteration order.
ListRead(p) ==
    /\ pc[p] = "li_read"
    /\ \E n \in loc[p].todo :
         LET acc == Append(loc[p].acc, meta[collections[n]])
         IN  IF loc[p].todo = {n}
             THEN /\ Return(p, [op |-> "list_collections", tag |-> "Ok", metas |-> acc])
                  /\ regReaders' = regReaders \ {p}
             ELSE /\ Goto(p, "li_read", call[p], [loc[p] EXCEPT !.todo = @ \ {n}, !.acc = acc])
                  /\ UNCHANGED <<ret, regReaders>>
    /\ UNCHANGED <<shared, calls, ncpu, batchVars, hist>>

(* --------------------------- get_memory_stats -------------------------- *)
\* let collections = self.collections.read().unwrap(); collections.len()
StatsStart(p) ==
    /\ CanCall(p)
    /\ IF DOMAIN collections = {}
       THEN /\ Return(p, [op |-> "get_memory_stats", tag |-> "Ok",
                          collections_count |-> 0, total_documents |-> 0])
            /\ UNCHANGED regReaders
       ELSE /\ Goto(p, "st_read", [op |-> "get_memory_stats"],
                    [NoLoc EXCEPT !.todo = DOMAIN collections])
            /\ regReaders' = regReaders \cup {p}
            /\ UNCHANGED ret
    /\ calls' = calls + 1
    /\ UNCHANGED <<shared, ncpu, batchVars, hist>>

\* total_docs += entry.meta.read().unwrap().doc_count
StatsRead(p) ==
    /\ pc[p] = "st_read"
    /\ \E n \in loc[p].todo :
         LET total == loc[p].id + meta[collections[n]].doc_count
         IN  IF loc[p].todo = {n}
             THEN /\ Return(p, [op |-> "get_memory_stats", tag |-> "Ok",
                                collections_count |-> Cardinality(DOMAIN collections),
                                total_documents |-> total])
                  /\ regReaders' = regReaders \ {p}
             ELSE /\ Goto(p, "st_read", call[p], [loc[p] EXCEPT !.todo = @ \ {n}, !.id = total])
                  /\ UNCHANGED <<ret, regReaders>>
    /\ UNCHANGED <<shared, calls, ncpu, batchVars, hist>>

(* ----------------------------- add_document --------------------------- *)
AddResult(c, tag, v) ==
    IF tag = "Ok"
    THEN [op |-> "add_document", name |-> c.name, tag |-> "Ok", id |-> v]
    ELSE [op |-> "add_document", name |-> c.name, tag |-> "Err", err |-> v]

\* add_document returns: to the caller, or into the chunk's
\* (batch_ids, batch_errs) when add_documents made the call.
AddReturn(w, c, tag, v) ==
    IF w \in Procs
    THEN /\ Return(w, AddResult(c, tag, v))
         /\ UNCHANGED chunk
    ELSE /\ Goto(w, IF chunk[w].pos = chunk[w].hi THEN "ck_done" ELSE "ck_next", NoCall, NoLoc)
         /\ chunk' = [chunk EXCEPT ![w].pos = @ + 1,
                                   ![w].ids = IF tag = "Ok" THEN Append(@, v) ELSE @,
                                   ![w].errs = IF tag = "Ok" THEN @
                                               ELSE Append(@, DocError(c.reqid, v))]
         /\ UNCHANGED ret

\* let entry = self.collections.read().unwrap().get(col_name).cloned().ok_or_else(..)?
AddLookup(w, c) ==
    IF c.name \in DOMAIN collections
    THEN /\ Goto(w, "ad_dim", c, [NoLoc EXCEPT !.entry = collections[c.name]])
         /\ UNCHANGED <<ret, chunk>>
    ELSE AddReturn(w, c, "Err", "Collection not found")

AddCall(name, d) ==
    [op |-> "add_document", name |-> name, id |-> d.id, reqid |-> d.id,
     embedding |-> d.embedding, metadata |-> d.metadata, content |-> d.content]

AddStart(p) ==
    /\ CanCall(p)
    /\ \E n \in Names, d \in DocInputs : AddLookup(p, AddCall(n, d))
    /\ calls' = calls + 1
    /\ UNCHANGED <<shared, regReaders, ncpu, batch, hist>>

\* Mutant: the length is never compared with dim.
DimMismatchNever(v, m) == FALSE

\* embedding.len() != meta.dim, query.len() != meta.dim
DimMismatch(v, m) == Len(v) # m.dim

\* Mutant: the guard `meta` is not dropped after the check.
AddDimCheckKeepGuard(w) ==
    /\ pc[w] = "ad_dim"
    /\ IF DimMismatch(call[w].embedding, meta[loc[w].entry])
       THEN AddReturn(w, call[w], "Err", "Embedding dimension mismatch")
       ELSE Goto(w, "ad_mint", call[w], [loc[w] EXCEPT !.meta_guard = loc[w].entry])
            /\ UNCHANGED <<ret, chunk>>
    /\ UNCHANGED <<shared, regReaders, calls, ncpu, batch, hist>>

\* let meta = entry.meta.read().unwrap(); if embedding.len() != meta.dim { return Err }
\* drop(meta)
AddDimCheck(w) ==
    /\ pc[w] = "ad_dim"
    /\ IF DimMismatch(call[w].embedding, meta[loc[w].entry])
       THEN AddReturn(w, call[w], "Err", "Embedding dimension mismatch")
       ELSE Goto(w, "ad_mint", call[w], [loc[w] EXCEPT !.meta_guard = 0])
            /\ UNCHANGED <<ret, chunk>>
    /\ UNCHANGED <<shared, regReaders, calls, ncpu, batch, hist>>

\* Mutant: the counter is read and not advanced.
AddMintNoAdd(w) ==
    /\ pc[w] = "ad_mint"
    /\ IF call[w].id = NoId
       THEN /\ minted' = Append(minted, id_counter)
            /\ Goto(w, "ad_write", call[w], [loc[w] EXCEPT !.id = id_counter])
       ELSE /\ UNCHANGED minted
            /\ Goto(w, "ad_write", call[w], [loc[w] EXCEPT !.id = call[w].id])
    /\ UNCHANGED <<collections, meta, index, id_counter, kv, regReaders, ret, calls, ncpu,
                   batchVars, createOk, addOk, okDocs, kvCommits>>

\* let doc_id = id.unwrap_or_else(|| self.generate_id())
AddMint(w) ==
    /\ pc[w] = "ad_mint"
    /\ IF call[w].id = NoId
       THEN /\ id_counter' = id_counter + 1
            /\ minted' = Append(minted, id_counter)
            /\ Goto(w, "ad_write", call[w], [loc[w] EXCEPT !.id = id_counter])
       ELSE /\ UNCHANGED <<id_counter, minted>>
            /\ Goto(w, "ad_write", call[w], [loc[w] EXCEPT !.id = call[w].id])
    /\ UNCHANGED <<collections, meta, index, kv, regReaders, ret, calls, ncpu, batchVars,
                   createOk, addOk, okDocs, kvCommits>>

\* Document batches committed so far for entry e.
Commits(e) == IF e \in DOMAIN kvCommits THEN kvCommits[e] ELSE 0

\* Mutant: three separate puts of which only the first is applied.
WriteBatchTorn(store, cid, did, c) ==
    Put(store, VecKey(cid, did), EncodeEmbedding(c.embedding))

\* The WriteBatch of the three puts, applied by self.db.write(batch) as a whole.
WriteBatch(store, cid, did, c) ==
    Put(Put(Put(store, VecKey(cid, did), EncodeEmbedding(c.embedding)),
            MetaKey(cid, did), c.metadata),
        ContentKey(cid, did), c.content)

\* Mutant: the error of the write is dropped and the call goes on to the index.
AddKvWriteIgnoreErr(w) ==
    /\ pc[w] = "ad_write"
    /\ \/ /\ kv' = WriteBatch(kv, meta[loc[w].entry].id, loc[w].id, call[w])
          /\ batch' = IF w \in ChunkIds
                      THEN [batch EXCEPT !.stored = Put(@, chunk[w].pos, loc[w].id)]
                      ELSE batch
          /\ kvCommits' = Put(kvCommits, loc[w].entry, Commits(loc[w].entry) + 1)
       \/ UNCHANGED <<kv, batch, kvCommits>>
    /\ Goto(w, "ad_index", call[w], loc[w])
    /\ UNCHANGED <<collections, meta, index, id_counter, regReaders, ret, chunk, calls, ncpu,
                   createOk, addOk, okDocs, minted>>

\* self.db.write(batch).map_err(|e| e.to_string())?
AddKvWrite(w) ==
    /\ pc[w] = "ad_write"
    /\ \/ /\ kv' = WriteBatch(kv, meta[loc[w].entry].id, loc[w].id, call[w])
          /\ Goto(w, "ad_index", call[w], loc[w])
          /\ batch' = IF w \in ChunkIds
                      THEN [batch EXCEPT !.stored = Put(@, chunk[w].pos, loc[w].id)]
                      ELSE batch
          /\ kvCommits' = Put(kvCommits, loc[w].entry, Commits(loc[w].entry) + 1)
          /\ UNCHANGED <<ret, chunk>>
       \/ /\ AddReturn(w, call[w], "Err", "storage")
          /\ UNCHANGED <<kv, batch, kvCommits>>
    /\ UNCHANGED <<collections, meta, index, id_counter, regReaders, calls, ncpu,
                   createOk, addOk, okDocs, minted>>

\* entry.index.write().unwrap().insert(doc_id as usize, &embedding)
AddIndexInsert(w) ==
    /\ pc[w] = "ad_index"
    /\ index' = [index EXCEPT ![loc[w].entry] = IndexInsert(@, loc[w].id, call[w].embedding)]
    /\ Goto(w, "ad_count", call[w], loc[w])
    /\ UNCHANGED <<collections, meta, id_counter, kv, regReaders, ret, calls, ncpu, batchVars, hist>>

\* Mutant: the count is assigned, not incremented.
IncDocCountSet(m) == [m EXCEPT !.doc_count = 1]

\* Mutant: the count advances by two.
IncDocCountTwice(m) == [m EXCEPT !.doc_count = @ + 2]

\* entry.meta.write().unwrap().doc_count += 1
IncDocCount(m) == [m EXCEPT !.doc_count = @ + 1]

\* the count update, for which meta.write() waits until no read guard of this
\* meta is alive, then Ok(doc_id)
AddCount(w) ==
    /\ pc[w] = "ad_count"
    /\ \A x \in Workers : loc[x].meta_guard # loc[w].entry
    /\ meta' = [meta EXCEPT ![loc[w].entry] = IncDocCount(@)]
    /\ AddReturn(w, call[w], "Ok", loc[w].id)
    /\ addOk' = Put(addOk, loc[w].entry,
                    IF loc[w].entry \in DOMAIN addOk THEN addOk[loc[w].entry] + 1 ELSE 1)
    /\ okDocs' = okDocs \cup {[name |-> call[w].name, entry |-> loc[w].entry, id |-> loc[w].id,
                               embedding |-> call[w].embedding,
                               metadata |-> call[w].metadata, content |-> call[w].content]}
    /\ UNCHANGED <<collections, index, id_counter, kv, regReaders, calls, ncpu, batch, createOk,
                   minted, kvCommits>>

(* -------------------------------- search ------------------------------ *)
SearchErr(c, tag, e) == [op |-> "search", name |-> c.name, tag |-> tag, err |-> e]

\* let entry = self.collections.read().unwrap().get(col_name).cloned().ok_or_else(..)?
SearchStart(p) ==
    /\ CanCall(p)
    /\ \E n \in Names, q \in Queries, k \in 0..MaxK :
         LET c == [op |-> "search", name |-> n, query |-> q, top_k |-> k]
         IN  IF n \in DOMAIN collections
             THEN Goto(p, "se_dim", c, [NoLoc EXCEPT !.entry = collections[n]]) /\ UNCHANGED ret
             ELSE Return(p, SearchErr(c, "Err", "Collection not found"))
    /\ calls' = calls + 1
    /\ UNCHANGED <<shared, regReaders, ncpu, batchVars, hist>>

\* let meta = entry.meta.read().unwrap(); if query.len() != meta.dim { return Err };
\* let collection_id = meta.id; drop(meta)
SearchDimCheck(p) ==
    /\ pc[p] = "se_dim"
    /\ IF DimMismatch(call[p].query, meta[loc[p].entry])
       THEN Return(p, SearchErr(call[p], "Err", "Query dimension mismatch"))
       ELSE Goto(p, "se_index", call[p],
                 [loc[p] EXCEPT !.id = meta[loc[p].entry].id, !.meta_guard = 0])
            /\ UNCHANGED ret
    /\ UNCHANGED <<shared, regReaders, calls, ncpu, batchVars, hist>>

SearchOk(c, out) == [op |-> "search", name |-> c.name, tag |-> "Ok", out |-> out]

\* let hits = entry.index.read().unwrap().search(query, top_k)
SearchIndex(p) ==
    /\ pc[p] = "se_index"
    /\ \E hits \in IndexSearch(meta[loc[p].entry].metric, index[loc[p].entry],
                               call[p].query, call[p].top_k) :
         IF Len(hits) = 0
         THEN Return(p, SearchOk(call[p], <<>>))
         ELSE Goto(p, "se_meta", call[p], [loc[p] EXCEPT !.hits = hits]) /\ UNCHANGED ret
    /\ UNCHANGED <<shared, regReaders, calls, ncpu, batchVars, hist>>

\* self.db.get(key).unwrap().map(from_utf8_lossy).unwrap_or_default()
KvGetOrDefault(store, key) == IF key \in DOMAIN store THEN store[key] ELSE ""

\* the meta: lookup of the next hit; a failed get panics in unwrap()
SearchGetMeta(p) ==
    /\ pc[p] = "se_meta"
    /\ LET n == loc[p].hits[Len(loc[p].out) + 1]
       IN  \/ Goto(p, "se_content", call[p],
                   [loc[p] EXCEPT !.acc = <<KvGetOrDefault(kv, MetaKey(loc[p].id, n.d_id))>>])
              /\ UNCHANGED ret
           \/ Return(p, SearchErr(call[p], "Panic", "storage"))
    /\ UNCHANGED <<shared, regReaders, calls, ncpu, batchVars, hist>>

\* the content: lookup of the same hit, out.push(..), and Ok(out) after the last
SearchGetContent(p) ==
    /\ pc[p] = "se_content"
    /\ LET n == loc[p].hits[Len(loc[p].out) + 1]
           row == [id |-> n.d_id, distance |-> n.distance, metadata |-> loc[p].acc[1],
                   content |-> KvGetOrDefault(kv, ContentKey(loc[p].id, n.d_id))]
           out == Append(loc[p].out, row)
       IN  \/ IF Len(out) = Len(loc[p].hits)
              THEN Return(p, SearchOk(call[p], out))
              ELSE Goto(p, "se_meta", call[p], [loc[p] EXCEPT !.out = out, !.acc = <<>>])
                   /\ UNCHANGED ret
           \/ Return(p, SearchErr(call[p], "Panic", "storage"))
    /\ UNCHANGED <<shared, regReaders, calls, ncpu, batchVars, hist>>

(* ----------------------------- add_documents -------------------------- *)
\* Requests of 0..MaxBatch documents.
BatchInputs == UNION { [1..n -> DocInputs] : n \in 0..MaxBatch }

\* `*v as f32`: exact up to 2^24, then rounded to the nearest even multiple.
ToF32(v) ==
    LET a == IF v < 0 THEN -v ELSE v
        r == IF a <= 16777216 \/ a % 2 = 0 THEN a
             ELSE IF (a + 1) % 4 = 0 THEN a + 1 ELSE a - 1
    IN  IF v < 0 THEN -r ELSE r

ChunkNo(k) == CHOOSE i \in 1..MaxBatch : ChunkWorker(i) = k

\* rayon tasks that hold a pool thread
Running == {k \in ChunkIds : pc[k] \notin {"off", "ck_ready", "ck_done"}}

BatchResult(n, tag, v) ==
    IF tag = "Ok"
    THEN [op |-> "add_documents", name |-> n, tag |-> "Ok", ids |-> v]
    ELSE [op |-> "add_documents", name |-> n, tag |-> "Err", errs |-> v]

StartedBatch(p, n, docs, nc) ==
    [active |-> TRUE, caller |-> p, name |-> n, docs |-> docs, nchunks |-> nc, stored |-> <<>>]

\* docs.par_chunks(chunk_size): chunk i is docs[(i-1)*cs+1 .. min(i*cs, len)]
ParChunks(docs, cs, nc) ==
    [k \in ChunkIds |->
       IF ChunkNo(k) <= nc
       THEN [lo |-> (ChunkNo(k) - 1) * cs + 1,
             hi |-> Min(ChunkNo(k) * cs, Len(docs)),
             pos |-> (ChunkNo(k) - 1) * cs + 1,
             ids |-> <<>>, errs |-> <<>>]
       ELSE NoChunk]

\* the empty check, the lookup of the collection, and the split into chunks
BatchStart(p) ==
    /\ CanCall(p)
    /\ ~batch.active
    /\ \E n \in Names, docs \in BatchInputs :
         IF Len(docs) = 0
         THEN Return(p, BatchResult(n, "Ok", <<>>)) /\ UNCHANGED batchVars
         ELSE IF n \notin DOMAIN collections
         THEN Return(p, BatchResult(n, "Err", <<"Collection not found">>)) /\ UNCHANGED batchVars
         ELSE LET cs == ChunkSize(Len(docs), ncpu)
                  nc == NumChunks(Len(docs), cs)
              IN  /\ batch' = StartedBatch(p, n, docs, nc)
                  /\ chunk' = ParChunks(docs, cs, nc)
                  /\ pc' = [w \in Workers |->
                              IF w = p THEN "bd_wait"
                              ELSE IF w \in ChunkIds /\ ChunkNo(w) <= nc THEN "ck_ready"
                              ELSE pc[w]]
                  /\ UNCHANGED <<call, loc, ret>>
    /\ calls' = calls + 1
    /\ UNCHANGED <<shared, regReaders, ncpu, hist>>

\* for d in chunk { match self.add_document(col_name, d.id, emb, ..) .. }: the
\* call for the chunk's next document, on one of the pool's threads
ChunkAdd(k) ==
    /\ k \in ChunkIds
    /\ \/ pc[k] = "ck_next"
       \/ pc[k] = "ck_ready" /\ Cardinality(Running) < ncpu
    /\ LET d == batch.docs[chunk[k].pos]
       IN  AddLookup(k, AddCall(batch.name,
                 [d EXCEPT !.embedding = [i \in 1..Len(d.embedding) |-> ToF32(d.embedding[i])]]))
    /\ UNCHANGED <<shared, regReaders, calls, ncpu, batch, hist>>

\* Mutant: only the first chunk's results are kept.
FlattenFirstChunk(ch, field, n) ==
    IF n = 0 THEN <<>>
    ELSE IF field = "ids" THEN ch[ChunkWorker(1)].ids ELSE ch[ChunkWorker(1)].errs

RECURSIVE FlattenReversed(_, _, _)
\* Mutant: the chunks' results are put together last chunk first.
FlattenReversed(ch, field, n) ==
    IF n = 0 THEN <<>>
    ELSE (IF field = "ids" THEN ch[ChunkWorker(n)].ids ELSE ch[ChunkWorker(n)].errs)
         \o FlattenReversed(ch, field, n - 1)

RECURSIVE Flatten(_, _, _)
\* ok_ids.extend(batch_ids) / errs.extend(batch_errs) over the chunks in order
Flatten(ch, field, n) ==
    IF n = 0 THEN <<>>
    ELSE Flatten(ch, field, n - 1) \o
         (IF field = "ids" THEN ch[ChunkWorker(n)].ids ELSE ch[ChunkWorker(n)].errs)

\* the collected results: Ok(ok_ids) if errs.is_empty(), else Err(errs)
BatchCollect(p) ==
    /\ pc[p] = "bd_wait"
    /\ batch.caller = p
    /\ \A i \in 1..batch.nchunks : pc[ChunkWorker(i)] = "ck_done"
    /\ LET ok_ids == Flatten(chunk, "ids", batch.nchunks)
           errs == Flatten(chunk, "errs", batch.nchunks)
       IN  ret' = [ret EXCEPT ![p] = IF errs = <<>>
                                      THEN BatchResult(batch.name, "Ok", ok_ids)
                                      ELSE BatchResult(batch.name, "Err", errs)]
    /\ pc' = [w \in Workers |-> IF w = p THEN "idle" ELSE IF w \in ChunkIds THEN "off" ELSE pc[w]]
    /\ batch' = NoBatch
    /\ chunk' = [k \in ChunkIds |-> NoChunk]
    /\ UNCHANGED <<shared, regReaders, call, loc, calls, ncpu, hist>>

\* One step of process p in any of its handlers.
Step(p) ==
    \/ CreateCheck(p)
    \/ CreateMint(p)
    \/ CreateInsert(p)
    \/ CreatePut(p)
    \/ GetLookup(p)
    \/ GetMeta(p)
    \/ ListStart(p)
    \/ ListRead(p)
    \/ StatsStart(p)
    \/ StatsRead(p)
    \/ AddStart(p)
    \/ AddDimCheck(p)
    \/ AddMint(p)
    \/ AddKvWrite(p)
    \/ AddIndexInsert(p)
    \/ AddCount(p)
    \/ SearchStart(p)
    \/ SearchDimCheck(p)
    \/ SearchIndex(p)
    \/ SearchGetMeta(p)
    \/ SearchGetContent(p)

Next == \E p \in Procs : Step(p)

Spec == Init /\ [][Next]_vars

\* A sequential run: a call starts only when no other call is in progress.
NextSeq == \E p \in Procs : (\A q \in Procs \ {p} : pc[q] = "idle") /\ Step(p)

SpecSeq == Init /\ [][NextSeq]_vars

\* The engine under add_documents: a machine with 1..MaxCpus processors, in
\* the state create_collection("a", Euclidean, 2) leaves when it returns Ok
\* on a new database, with one call of the run left: the add_documents call.
SetupInput == [name |-> "a", metric |-> "Euclidean", dim |-> 2]

InitBatch ==
    /\ collections = Put(<<>>, SetupInput.name, 1)
    /\ meta = Put(<<>>, 1, NewMeta(SetupInput, 1))
    /\ index = Put(<<>>, 1, <<>>)
    /\ id_counter = 2
    /\ kv = Put(<<>>, ColKey(SetupInput.name), MetaJson(NewMeta(SetupInput, 1)))
    /\ regReaders = {}
    /\ pc = [w \in Workers |-> IF w \in Procs THEN "idle" ELSE "off"]
    /\ call = [w \in Workers |-> NoCall]
    /\ loc = [w \in Workers |-> NoLoc]
    /\ ret = [p \in Procs |-> IF p = "p1"
                              THEN [op |-> "create_collection", name |-> SetupInput.name,
                                    tag |-> "Ok", meta |-> NewMeta(SetupInput, 1)]
                              ELSE NoCall]
    /\ calls = MaxCalls - 1
    /\ ncpu \in 1..MaxCpus
    /\ batch = NoBatch
    /\ chunk = [k \in ChunkIds |-> NoChunk]
    /\ createOk = [n \in Names |-> IF n = SetupInput.name THEN 1 ELSE 0]
    /\ addOk = <<>>
    /\ okDocs = {}
    /\ minted = <<1>>
    /\ kvCommits = <<>>

NextBatch ==
    \/ \E p \in Procs :
        \/ BatchStart(p)
        \/ BatchCollect(p)
    \/ \E w \in ChunkIds :
        \/ ChunkAdd(w)
        \/ AddDimCheck(w)
        \/ AddMint(w)
        \/ AddKvWrite(w)
        \/ AddIndexInsert(w)
        \/ AddCount(w)

SpecBatch == InitBatch /\ [][NextBatch]_vars
\* The engine while a create_collection is in progress: on a new database one
\* caller has passed the contains_key check of create_collection and has not
\* yet minted the id; the calls of the run are made from there.
PendingCreate == [op |-> "create_collection", name |-> "a", metric |-> "Euclidean", dim |-> 2]

InitObs ==
    /\ collections = <<>>
    /\ meta = <<>>
    /\ index = <<>>
    /\ id_counter = 1
    /\ kv = <<>>
    /\ regReaders = {}
    /\ pc = [w \in Workers |-> IF w = "p1" THEN "cc_mint" ELSE IF w \in Procs THEN "idle" ELSE "off"]
    /\ call = [w \in Workers |-> IF w = "p1" THEN PendingCreate ELSE NoCall]
    /\ loc = [w \in Workers |-> NoLoc]
    /\ ret = [p \in Procs |-> NoCall]
    /\ calls = 0
    /\ ncpu = 1
    /\ batch = NoBatch
    /\ chunk = [k \in ChunkIds |-> NoChunk]
    /\ createOk = [n \in Names |-> 0]
    /\ addOk = <<>>
    /\ okDocs = {}
    /\ minted = <<>>
    /\ kvCommits = <<>>

\* The calls that create, fill and read collection metadata.
NextObs ==
    \E p \in Procs :
        \/ CreateCheck(p)
        \/ CreateMint(p)
        \/ CreateInsert(p)
        \/ CreatePut(p)
        \/ GetLookup(p)
        \/ GetMeta(p)
        \/ ListStart(p)
        \/ ListRead(p)
        \/ AddStart(p)
        \/ AddDimCheck(p)
        \/ AddMint(p)
        \/ AddKvWrite(p)
        \/ AddIndexInsert(p)
        \/ AddCount(p)

SpecObs == InitObs /\ [][NextObs]_vars
\* The engine with collections in place: the state a new database is in after
\* create_collection("a", Euclidean, 2) returned Ok, or after that call and
\* create_collection("b", Cosine, 1) both returned Ok; the calls of the run
\* add documents and search.
SetupInputs == <<SetupInput, [name |-> "b", metric |-> "Cosine", dim |-> 1]>>

InitWarm ==
    \E n \in 1..Len(SetupInputs) :
        /\ collections = [x \in {SetupInputs[i].name : i \in 1..n} |->
                            CHOOSE i \in 1..n : SetupInputs[i].name = x]
        /\ meta = [i \in 1..n |-> NewMeta(SetupInputs[i], i)]
        /\ index = [i \in 1..n |-> <<>>]
        /\ id_counter = n + 1
        /\ kv = [k \in {ColKey(SetupInputs[i].name) : i \in 1..n} |->
                   MetaJson(NewMeta(SetupInputs[CHOOSE i \in 1..n : ColKey(SetupInputs[i].name) = k],
                                    CHOOSE i \in 1..n : ColKey(SetupInputs[i].name) = k))]
        /\ regReaders = {}
        /\ pc = [w \in Workers |-> IF w \in Procs THEN "idle" ELSE "off"]
        /\ call = [w \in Workers |-> NoCall]
        /\ loc = [w \in Workers |-> NoLoc]
        /\ ret = [p \in Procs |-> NoCall]
        /\ calls = 0
        /\ ncpu = 1
        /\ batch = NoBatch
        /\ chunk = [k \in ChunkIds |-> NoChunk]
        /\ createOk = [x \in Names |-> IF \E i \in 1..n : SetupInputs[i].name = x THEN 1 ELSE 0]
        /\ addOk = <<>>
        /\ okDocs = {}
        /\ minted = [i \in 1..n |-> i]
        /\ kvCommits = <<>>

NextWarm ==
    \E p \in Procs :
        \/ AddStart(p)
        \/ AddDimCheck(p)
        \/ AddMint(p)
        \/ AddKvWrite(p)
        \/ AddIndexInsert(p)
        \/ AddCount(p)
        \/ SearchStart(p)
        \/ SearchDimCheck(p)
        \/ SearchIndex(p)
        \/ SearchGetMeta(p)
        \/ SearchGetContent(p)

SpecWarm == InitWarm /\ [][NextWarm]_vars
(* ----------------------- DistanceMetric::from_str ---------------------- *)
\* Strings are sequences of characters.  The upper-case letters the inputs
\* use, and their lower-case forms at the same positions.
Uppers == <<"A", "C", "D", "E", "I", "L", "N", "O", "S", "T", "U", "X">>
Lowers == <<"a", "c", "d", "e", "i", "l", "n", "o", "s", "t", "u", "x">>

\* char::to_lowercase: a sequence of characters; U+0130 (capital I with dot
\* above) gives two, i followed by the combining dot; characters without a
\* lower-case form give themselves.
LowerOf(c) ==
    IF \E i \in 1..Len(Uppers) : Uppers[i] = c
    THEN <<Lowers[CHOOSE i \in 1..Len(Uppers) : Uppers[i] = c]>>
    ELSE IF c = "U+0130" THEN <<"i", "U+0307">>
    ELSE <<c>>

\* Mutant: the string is matched as it is.
ToLowercaseAsIs(s) == s

RECURSIVE ToLowercase(_)
\* s.to_lowercase()
ToLowercase(s) == IF s = <<>> THEN <<>> ELSE LowerOf(Head(s)) \o ToLowercase(Tail(s))

\* Option::None of from_str's result.
NoMetric == "None"

\* match s.to_lowercase().as_str() { "euclidean" => .., "cosine" => .., "dot" => .., _ => None }
from_str(s) ==
    LET l == ToLowercase(s)
    IN  IF l = <<"e", "u", "c", "l", "i", "d", "e", "a", "n">> THEN "Euclidean"
        ELSE IF l = <<"c", "o", "s", "i", "n", "e">> THEN "Cosine"
        ELSE IF l = <<"d", "o", "t">> THEN "Dot"
        ELSE NoMetric

\* The name of a variant of DistanceMetric, as its derived Debug and Serialize
\* write it.
MetricName(m) ==
    IF m = "Euclidean" THEN <<"E", "u", "c", "l", "i", "d", "e", "a", "n">>
    ELSE IF m = "Cosine" THEN <<"C", "o", "s", "i", "n", "e">>
    ELSE <<"D", "o", "t">>

UpperOf(c) ==
    IF \E i \in 1..Len(Lowers) : Lowers[i] = c
    THEN Uppers[CHOOSE i \in 1..Len(Lowers) : Lowers[i] = c]
    ELSE c

RECURSIVE CaseVariants(_)
\* Every way of writing the lower-case word w in upper- and lower-case letters.
CaseVariants(w) ==
    IF w = <<>> THEN {<<>>}
    ELSE {<<c>> \o t : c \in {Head(w), UpperOf(Head(w))}, t \in CaseVariants(Tail(w))}

\* Arguments of from_str: the three names in every letter case, and strings
\* that are none of them (empty, shortened, extended, padded, misspelt, with a
\* character whose lower-case form is two characters).
ParseInputs ==
    CaseVariants(<<"e", "u", "c", "l", "i", "d", "e", "a", "n">>)
      \cup CaseVariants(<<"c", "o", "s", "i", "n", "e">>)
      \cup CaseVariants(<<"d", "o", "t">>)
      \cup { <<>>, <<"d", "o">>, <<"D", "O", "T", "S">>, <<"d", "o", "t", " ">>, <<" ", "d", "o", "t">>,
             <<"d", "0", "t">>, <<"l", "2">>, <<"L", "2">>, <<"c", "o", "s">>, <<"C", "O", "S", "I", "N">>,
             <<"c", "o", "s", "i", "n", "e", "x">>, <<"e", "u", "c", "l", "i", "d">>,
             <<"E", "U", "C", "L", "I", "D", "I", "A", "N">>, <<"d", "o", "t", "d", "o", "t">>,
             <<"C", "O", "S", "U+0130", "N", "E">>, <<"c", "o", "s", "i", "U+0307", "n", "e">>,
             <<"N", "o", "n", "e">> }

\* A new engine on which one more call is made.
InitParse ==
    /\ collections = <<>>
    /\ meta = <<>>
    /\ index = <<>>
    /\ id_counter = 1
    /\ kv = <<>>
    /\ regReaders = {}
    /\ pc = [w \in Workers |-> IF w \in Procs THEN "idle" ELSE "off"]
    /\ call = [w \in Workers |-> NoCall]
    /\ loc = [w \in Workers |-> NoLoc]
    /\ ret = [p \in Procs |-> NoCall]
    /\ calls = MaxCalls - 1
    /\ ncpu = 1
    /\ batch = NoBatch
    /\ chunk = [k \in ChunkIds |-> NoChunk]
    /\ createOk = [n \in Names |-> 0]
    /\ addOk = <<>>
    /\ okDocs = {}
    /\ minted = <<>>
    /\ kvCommits = <<>>

ParseCall(p) ==
    /\ CanCall(p)
    /\ \E s \in ParseInputs :
         ret' = [ret EXCEPT ![p] = [op |-> "from_str", s |-> s, tag |-> "Ok", value |-> from_str(s)]]
    /\ calls' = calls + 1
    /\ UNCHANGED <<shared, regReaders, pc, call, loc, ncpu, batchVars, hist>>

NextParse == \E p \in Procs : ParseCall(p)

SpecParse == InitParse /\ [][NextParse]_vars
(* ------------------------------ scheduling ---------------------------- *)
ProcStep(p) == Step(p) \/ BatchCollect(p)

ChunkStep(k) ==
    \/ ChunkAdd(k)
    \/ AddDimCheck(k)
    \/ AddMint(k)
    \/ AddKvWrite(k)
    \/ AddIndexInsert(k)
    \/ AddCount(k)

\* The engine under a fair scheduler, started in one of two situations: a new
\* database, on which MaxCalls calls of create_collection,
\* get_collection_by_name, list_collections, add_document, search and
\* get_memory_stats are made; or the state in which, collection "a" existing,
\* an add_documents call has split its documents into chunks and waits for
\* the pool to run them.
InitLive ==
    \/ Init
    \/ \E docs \in BatchInputs \ {<<>>} :
          LET cs == ChunkSize(Len(docs), ncpu)
              nc == NumChunks(Len(docs), cs)
          IN  /\ collections = Put(<<>>, SetupInput.name, 1)
              /\ meta = Put(<<>>, 1, NewMeta(SetupInput, 1))
              /\ index = Put(<<>>, 1, <<>>)
              /\ id_counter = 2
              /\ kv = Put(<<>>, ColKey(SetupInput.name), MetaJson(NewMeta(SetupInput, 1)))
              /\ regReaders = {}
              /\ ncpu \in 1..MaxCpus
              /\ pc = [w \in Workers |->
                         IF w = "p1" THEN "bd_wait"
                         ELSE IF w \in Procs THEN "idle"
                         ELSE IF ChunkNo(w) <= nc THEN "ck_ready" ELSE "off"]
              /\ call = [w \in Workers |-> NoCall]
              /\ loc = [w \in Workers |-> NoLoc]
              /\ ret = [p \in Procs |-> NoCall]
              /\ calls = MaxCalls
              /\ batch = StartedBatch("p1", SetupInput.name, docs, nc)
              /\ chunk = ParChunks(docs, cs, nc)
              /\ createOk = [n \in Names |-> IF n = SetupInput.name THEN 1 ELSE 0]
              /\ addOk = <<>>
              /\ okDocs = {}
              /\ minted = <<1>>
              /\ kvCommits = <<>>

NextLive ==
    \/ \E p \in Procs : ProcStep(p)
    \/ \E k \in ChunkIds : ChunkStep(k)

\* Every thread that can take a step eventually takes one.
Fairness ==
    /\ \A p \in Procs : WF_vars(ProcStep(p))
    /\ \A k \in ChunkIds : WF_vars(ChunkStep(k))

SpecLive == InitLive /\ [][NextLive]_vars /\ Fairness
\* The engine while a create_collection of a collection "b" is in progress: on
\* a new database the caller has passed the contains_key check with a dim of 0
\* or 1; one more call is made in the run.
InitDim ==
    \E d \in {0, 1} :
        /\ collections = <<>>
        /\ meta = <<>>
        /\ index = <<>>
        /\ id_counter = 1
        /\ kv = <<>>
        /\ regReaders = {}
        /\ pc = [w \in Workers |-> IF w = "p1" THEN "cc_mint" ELSE IF w \in Procs THEN "idle" ELSE "off"]
        /\ call = [w \in Workers |->
                     IF w = "p1"
                     THEN [op |-> "create_collection", name |-> "b", metric |-> "Cosine", dim |-> d]
                     ELSE NoCall]
        /\ loc = [w \in Workers |-> NoLoc]
        /\ ret = [p \in Procs |-> NoCall]
        /\ calls = MaxCalls - 1
        /\ ncpu = 1
        /\ batch = NoBatch
        /\ chunk = [k \in ChunkIds |-> NoChunk]
        /\ createOk = [n \in Names |-> 0]
        /\ addOk = <<>>
        /\ okDocs = {}
        /\ minted = <<>>
        /\ kvCommits = <<>>

SpecDim == InitDim /\ [][NextObs]_vars
(* ------------------------- index parameters --------------------------- *)
\* One evaluation of the HNSW construction parameters for a dim, or of the
\* search width for a top_k, on a new engine.
OptimizeCall(p) ==
    /\ CanCall(p)
    /\ \E d \in 0..MaxDim :
         ret' = [ret EXCEPT ![p] = [op |-> "optimize_hnsw_params", dim |-> d, tag |-> "Ok",
                                    value |-> optimize_hnsw_params(d)]]
    /\ calls' = calls + 1
    /\ UNCHANGED <<shared, regReaders, pc, call, loc, ncpu, batchVars, hist>>

EfSearchCall(p) ==
    /\ CanCall(p)
    /\ \E k \in 0..MaxTopK :
         ret' = [ret EXCEPT ![p] = [op |-> "ef_search", top_k |-> k, tag |-> "Ok",
                                    value |-> ef_search(k)]]
    /\ calls' = calls + 1
    /\ UNCHANGED <<shared, regReaders, pc, call, loc, ncpu, batchVars, hist>>

NextParams ==
    \E p \in Procs :
        \/ OptimizeCall(p)
        \/ EfSearchCall(p)

SpecParams == InitParse /\ [][NextParams]_vars
(* ============================== claims ================================ *)
\* What list_collections shows for name n: the registry entries whose meta
\* carries that name.
Listed(reg, m, n) == {k \in DOMAIN reg : m[reg[k]].name = n}

IsDuplicateErr(r) == r.op = "create_collection" /\ r.tag = "Err" /\ r.err = "duplicate"

\* Indices of a list_collections result that carry name n.
ListHits(metas, n) == {i \in 1..Len(metas) : metas[i].name = n}

\* C1: in a sequential run, create_collection on a name whose first create
\* returned Ok does not get past the contains_key check: it returns the
\* duplicate error and leaves the registry, the KV store and the id counter
\* as they are; the one create that registers the name makes the listing one
\* entry longer, and every list_collections result holds that name exactly once.
C1_DuplicateCreateRejected ==
    [][\A p \in Procs :
         /\ (pc[p] = "idle" /\ pc'[p] = "cc_mint")
               => (call'[p].name \notin DOMAIN collections /\ createOk[call'[p].name] = 0)
         /\ (pc[p] = "idle" /\ pc'[p] = "idle" /\ ret'[p] # ret[p]
               /\ ret'[p].op = "create_collection")
               => /\ IsDuplicateErr(ret'[p])
                  /\ ret'[p].name \in DOMAIN collections
                  /\ UNCHANGED <<collections, meta, index, kv, id_counter>>
         /\ (pc[p] = "cc_insert" /\ pc'[p] = "cc_put")
               => /\ Cardinality(DOMAIN collections') = Cardinality(DOMAIN collections) + 1
                  /\ Cardinality(Listed(collections', meta', call[p].name)) = 1
         /\ (pc[p] = "cc_put" /\ pc'[p] = "idle" /\ ret'[p].tag = "Ok")
               => /\ createOk[ret'[p].name] = 0
                  /\ Cardinality(Listed(collections', meta', ret'[p].name)) = 1
         /\ (ret'[p] # ret[p] /\ ret'[p].op = "list_collections")
               => /\ Len(ret'[p].metas) = Cardinality(DOMAIN collections)
                  /\ \A n \in Names : createOk[n] >= 1
                        => Cardinality(ListHits(ret'[p].metas, n)) = 1
    ]_vars

\* C1 witness: the first create of "a" returned Ok, a second one returned the
\* duplicate error, and a list_collections after them returned one entry.
C1_Witness ==
    /\ createOk["a"] = 1
    /\ \E p, q \in Procs :
         /\ IsDuplicateErr(ret[p]) /\ ret[p].name = "a"
         /\ ret[q].op = "list_collections" /\ Len(ret[q].metas) = 1

\* C2: of the create_collection calls made with one name, in any interleaving,
\* at most one returns Ok (the others return the duplicate error).
C2_ExactlyOneCreateSucceeds == \A n \in Names : createOk[n] <= 1

\* C3: for every collection entry, doc_count equals the number of
\* add_document calls on it that returned Ok, in every state of every
\* interleaving: each Ok adds exactly 1 and an Err adds nothing.
C3_DocCountCountsOkAdds ==
    \A e \in DOMAIN meta :
        meta[e].doc_count = (IF e \in DOMAIN addOk THEN addOk[e] ELSE 0)

\* C3 witness: one add_document on an entry has returned Ok while another one
\* on the same entry is between its index insert and its count update.
C3_Witness ==
    \E e \in DOMAIN meta :
        /\ meta[e].doc_count = 1
        /\ e \in DOMAIN addOk /\ addOk[e] = 1
        /\ \E p \in Procs : pc[p] = "ad_count" /\ loc[p].entry = e

\* The ids of the points of an index.
IndexedIds(idx) == {idx[i].id : i \in 1..Len(idx)}

DocKeys(cid, did) == {VecKey(cid, did), MetaKey(cid, did), ContentKey(cid, did)}

\* What a search of entry e returns when no other call interferes.
SearchOut(e, q, k) ==
    { [i \in 1..Len(h) |->
         [id |-> h[i].d_id, distance |-> h[i].distance,
          metadata |-> KvGetOrDefault(kv, MetaKey(meta[e].id, h[i].d_id)),
          content |-> KvGetOrDefault(kv, ContentKey(meta[e].id, h[i].d_id))]] :
        h \in IndexSearch(meta[e].metric, index[e], q, k) }

\* C4: once add_document has returned Ok(id), the KV store holds the three keys
\* of that id with the values the call supplied, id is in the index, and a
\* search with k = number of indexed documents returns id with that metadata
\* and content.
C4_OkDocStaysStoredAndFindable ==
    \A d \in okDocs :
        /\ DocKeys(d.entry, d.id) \subseteq DOMAIN kv
        /\ kv[VecKey(d.entry, d.id)] = EncodeEmbedding(d.embedding)
        /\ kv[MetaKey(d.entry, d.id)] = d.metadata
        /\ kv[ContentKey(d.entry, d.id)] = d.content
        /\ d.id \in IndexedIds(index[d.entry])
        /\ \A q \in Queries : Len(q) = meta[d.entry].dim =>
              \A out \in SearchOut(d.entry, q, Len(index[d.entry])) :
                 \E i \in 1..Len(out) : /\ out[i].id = d.id
                                        /\ out[i].metadata = d.metadata
                                        /\ out[i].content = d.content

AddMismatch(c) == AddResult(c, "Err", "Embedding dimension mismatch")
SearchMismatch(c) == SearchErr(c, "Err", "Query dimension mismatch")

\* C5: an add_document whose embedding length differs from dim and a search
\* whose query length differs from dim return the dimension-mismatch error
\* without having changed the registry, the metadata (doc_count), the index,
\* the id counter or the KV store; no call gets past its dimension check with
\* a vector of the wrong length.
C5_DimensionMismatchRejected ==
    [][\A p \in Procs :
         /\ (pc[p] = "idle" /\ pc'[p] \in {"ad_dim", "se_dim"})
               => UNCHANGED <<collections, meta, index, id_counter, kv>>
         /\ (pc[p] = "ad_dim" /\ pc'[p] # "ad_dim"
               /\ Len(call[p].embedding) # meta[loc[p].entry].dim)
               => /\ pc'[p] = "idle" /\ ret'[p] = AddMismatch(call[p])
                  /\ UNCHANGED <<collections, meta, index, id_counter, kv>>
         /\ (pc[p] = "se_dim" /\ pc'[p] # "se_dim"
               /\ Len(call[p].query) # meta[loc[p].entry].dim)
               => /\ pc'[p] = "idle" /\ ret'[p] = SearchMismatch(call[p])
                  /\ UNCHANGED <<collections, meta, index, id_counter, kv>>
         /\ pc'[p] \in {"ad_mint", "ad_write", "ad_index", "ad_count"}
               => Len(call'[p].embedding) = meta'[loc'[p].entry].dim
         /\ pc'[p] \in {"se_index", "se_meta", "se_content"}
               => Len(call'[p].query) = meta'[loc'[p].entry].dim
    ]_vars

\* C5 witness: an add_document and a search have both been rejected for their
\* vector's length.
C5_Witness ==
    \E p, q \in Procs :
        /\ ret[p].op = "add_document" /\ ret[p].tag = "Err"
        /\ ret[p].err = "Embedding dimension mismatch"
        /\ ret[q].op = "search" /\ ret[q].tag = "Err"
        /\ ret[q].err = "Query dimension mismatch"

\* Every id in an index has its three keys in the store.
IndexedImpliesStored(idx, m, store) ==
    \A e \in DOMAIN idx : \A did \in IndexedIds(idx[e]) : DocKeys(m[e].id, did) \subseteq DOMAIN store

\* C6: the KV commit precedes the ANN insert: in every state every id in a
\* collection's index has its vec, meta and content keys in the KV store, and
\* an add_document whose KV commit fails returns the storage error leaving the
\* index, doc_count and the store unchanged.
C6_CommitPrecedesInsert ==
    [][/\ IndexedImpliesStored(index', meta', kv')
       /\ \A p \in Procs :
            /\ (pc[p] = "ad_write" /\ pc'[p] = "idle")
                  => /\ ret'[p] = AddResult(call[p], "Err", "storage")
                     /\ UNCHANGED <<index, meta, kv>>
            /\ (pc[p] = "ad_write" /\ pc'[p] = "ad_index")
                  => DocKeys(meta[loc[p].entry].id, loc[p].id) \subseteq DOMAIN kv'
    ]_vars

\* C6 witness: one add_document has been indexed and another one has returned
\* the storage error.
C6_Witness ==
    /\ \E e \in DOMAIN index : Len(index[e]) >= 1
    /\ \E p \in Procs : /\ ret[p].op = "add_document" /\ ret[p].tag = "Err"
                        /\ ret[p].err = "storage"

\* The document ids the inputs can produce: minted or client-supplied.
DocIdUniverse == (1..id_counter) \cup ({d.id : d \in DocInputs} \ {NoId})

\* C7: in every state, and so wherever a crash stops add_document, the vec:,
\* meta: and content: keys of a (collection id, document id) are all in the
\* KV store or all absent.
C7_BatchAllOrNothing ==
    \A cid \in 1..id_counter, did \in DocIdUniverse :
        \/ DocKeys(cid, did) \subseteq DOMAIN kv
        \/ DocKeys(cid, did) \cap DOMAIN kv = {}

\* C7 witness: a call stands between its KV commit and its index insert, with
\* the three keys of its document in the store.
C7_Witness ==
    \E p \in Procs : /\ pc[p] = "ad_index"
                     /\ DocKeys(meta[loc[p].entry].id, loc[p].id) \subseteq DOMAIN kv
                     /\ loc[p].id \notin IndexedIds(index[loc[p].entry])

\* C8: a create_collection that returned the storage error of its KV put has
\* left no entry for its name in the registry (get_collection_by_name and
\* list_collections do not show it, a retry is not a duplicate).
C8_FailedCreateLeavesNoEntry ==
    \A p \in Procs :
        (ret[p].op = "create_collection" /\ ret[p].tag = "Err" /\ ret[p].err = "storage")
            => ret[p].name \notin DOMAIN collections

\* Positions of docs whose embedding length differs from dim.
Mismatched(docs, dim) == {i \in 1..Len(docs) : Len(docs[i].embedding) # dim}

RECURSIVE ExpectedErrs(_, _, _)
\* The error entries of the mismatched documents among the first n, in input order.
ExpectedErrs(docs, dim, n) ==
    IF n = 0 THEN <<>>
    ELSE ExpectedErrs(docs, dim, n - 1) \o
         (IF Len(docs[n].embedding) # dim
          THEN <<DocError(docs[n].id, "Embedding dimension mismatch")>>
          ELSE <<>>)

NotStorageErr(e) == e \notin {DocError(d.id, "storage") : d \in DocInputs}

\* C9: when add_documents with N documents of which F >= 1 have a dimension
\* mismatch returns, it returns Err(errors); the errors are one entry per
\* mismatched document, in input order, plus one per document whose KV write
\* failed (none when the store does not fail, so exactly F); every other
\* document has its keys in the KV store and its id in the index, where a
\* search finds it, and doc_count has grown by the number of those documents
\* (N - F when the store does not fail).
C9_PartialFailureReported ==
    [][\A p \in Procs : (pc[p] = "bd_wait" /\ pc'[p] = "idle") =>
         LET docs == batch.docs
             e == collections[batch.name]
             bad == Mismatched(docs, meta[e].dim)
             lost == {i \in (1..Len(docs)) \ bad : i \notin DOMAIN batch.stored}
             good == Len(docs) - Cardinality(bad) - Cardinality(lost)
         IN  bad # {} =>
               /\ ret'[p].op = "add_documents" /\ ret'[p].tag = "Err"
               /\ SelectSeq(ret'[p].errs, NotStorageErr)
                     = ExpectedErrs(docs, meta[e].dim, Len(docs))
               /\ Len(ret'[p].errs) = Cardinality(bad) + Cardinality(lost)
               /\ DOMAIN batch.stored \cap bad = {}
               /\ \A i \in DOMAIN batch.stored :
                     /\ DocKeys(meta[e].id, batch.stored[i]) \subseteq DOMAIN kv'
                     /\ batch.stored[i] \in IndexedIds(index'[e])
                     /\ \A q \in Queries : Len(q) = meta[e].dim =>
                           \A out \in SearchOut(e, q, Len(index[e])) :
                              \E j \in 1..Len(out) : out[j].id = batch.stored[i]
               /\ meta'[e].doc_count = good
               /\ Len(index'[e]) = good
    ]_vars

\* C9 witness: a request of three documents, one of them of the wrong length,
\* has returned one error, and the two others are indexed and counted.
C9_Witness ==
    \E p \in Procs :
        /\ ret[p].op = "add_documents" /\ ret[p].tag = "Err" /\ Len(ret[p].errs) = 1
        /\ ret[p].errs[1] = DocError(2, "Embedding dimension mismatch")
        /\ meta[1].doc_count = 2 /\ Len(index[1]) = 2

\* C10: add_documents returns Ok(ids) exactly when every document succeeded,
\* and then ids is as long as the input and ids[i] is the id under which the
\* KV batch of input document i was committed (the client's id when it gave
\* one), for every chunk size and every schedule of the chunks.
C10_BatchIdsInInputOrder ==
    [][\A p \in Procs : (pc[p] = "bd_wait" /\ pc'[p] = "idle") =>
         LET docs == batch.docs
             e == collections[batch.name]
         IN  /\ ret'[p].op = "add_documents"
             /\ (ret'[p].tag = "Ok") <=> (DOMAIN batch.stored = 1..Len(docs))
             /\ ret'[p].tag = "Ok" =>
                  /\ Len(ret'[p].ids) = Len(docs)
                  /\ \A i \in 1..Len(docs) :
                        /\ ret'[p].ids[i] = batch.stored[i]
                        /\ docs[i].id # NoId => ret'[p].ids[i] = docs[i].id
                        /\ ret'[p].ids[i] \in IndexedIds(index'[e])
    ]_vars

\* C10 witness: four documents in two chunks of two, all stored, the second
\* chunk having minted its ids before the first.
C10_Witness ==
    \E p \in Procs :
        /\ ret[p].op = "add_documents" /\ ret[p].tag = "Ok"
        /\ Len(ret[p].ids) = 4 /\ ncpu = 2
        /\ ret[p].ids[3] < ret[p].ids[1]

\* C11: an add_documents call that returns without having processed a document
\* (zero documents, or a collection name that is not registered) returns an
\* error, never a success value; with zero documents the error is EmptyBatch,
\* whether the name is registered or not.
C11_EmptyBatchRejected ==
    [][\A p \in Procs :
         (pc[p] = "idle" /\ pc'[p] = "idle" /\ calls' = calls + 1
            /\ ret'[p].op = "add_documents")
            => /\ ret'[p].tag = "Err"
               /\ ret'[p].name \in DOMAIN collections => ret'[p].errs = <<"EmptyBatch">>
    ]_vars

\* The document ids that have their keys in the store under collection id cid.
StoredIds(store, cid) == {did \in DocIdUniverse : VecKey(cid, did) \in DOMAIN store}

\* C12: (collection id, document id) is unique: when no call is in progress,
\* doc_count of every collection equals the number of distinct document ids
\* stored under its collection id, whether the ids were minted or supplied.
C12_DocIdsUnique ==
    (\A p \in Procs : pc[p] = "idle")
        => \A e \in DOMAIN meta : meta[e].doc_count = Cardinality(StoredIds(kv, meta[e].id))

\* The metadata a returned value r shows for collection name n.
Observed(r, n) ==
    IF r.op = "get_collection_by_name" /\ r.tag = "Ok" /\ r.name = n THEN {r.meta}
    ELSE IF r.op = "list_collections" THEN {r.metas[i] : i \in ListHits(r.metas, n)}
    ELSE {}

SameCollection(old, new) ==
    /\ new.id = old.id /\ new.dim = old.dim /\ new.metric = old.metric
    /\ new.doc_count >= old.doc_count

\* C13: two successive observations of a name's metadata show the same id,
\* dim and metric and a doc_count that has not decreased: what a caller gets
\* from get_collection_by_name or list_collections agrees with what the same
\* caller got before, and what get_collection_by_name returns agrees with
\* every observation another caller already holds.
C13_MetadataStable ==
    [][\A p \in Procs : ret'[p] # ret[p] =>
         \A n \in Names : \A new \in Observed(ret'[p], n) :
            /\ \A old \in Observed(ret[p], n) : SameCollection(old, new)
            /\ ret'[p].op = "get_collection_by_name"
                  => \A q \in Procs : \A old \in Observed(ret[q], n) : SameCollection(old, new)
    ]_vars

\* The add_document calls on entry e whose KV batch has been committed: the
\* ones that returned Ok and the ones between their commit and their return.
Committed(e) ==
    {[id |-> d.id, metadata |-> d.metadata, content |-> d.content] : d \in {x \in okDocs : x.entry = e}}
      \cup {[id |-> loc[w].id, metadata |-> call[w].metadata, content |-> call[w].content] :
              w \in {x \in Workers : pc[x] \in {"ad_index", "ad_count"} /\ loc[x].entry = e}}

\* The add_document calls on entry e that have inserted into its index.
Inserted(e) ==
    {d.id : d \in {x \in okDocs : x.entry = e}}
      \cup {loc[w].id : w \in {x \in Workers : pc[x] = "ad_count" /\ loc[x].entry = e}}

\* A search returns Ok(out) in this step.
SearchReturns(p) ==
    /\ pc[p] \in {"se_index", "se_content"} /\ pc'[p] = "idle"
    /\ ret'[p].op = "search" /\ ret'[p].tag = "Ok"

\* C14: registry isolation: every row a search on a collection returns has
\* the id of a document that an add_document on that same collection put into
\* its index, and its metadata and its content are values an add_document on
\* that same collection stored under that id, whatever other collections hold
\* under the same document id.
C14_RegistryIsolation ==
    [][\A p \in Procs : SearchReturns(p) =>
         \A i \in 1..Len(ret'[p].out) :
            LET row == ret'[p].out[i]
                e == loc[p].entry
            IN  /\ row.id \in Inserted(e)
                /\ \E d \in Committed(e) : d.id = row.id /\ d.metadata = row.metadata
                /\ \E d \in Committed(e) : d.id = row.id /\ d.content = row.content
    ]_vars

\* C14 witness: collections "a" and "b" both hold a document with id 2, with
\* different payloads, and a search on "b" has returned b's.
C14_Witness ==
    /\ \E d \in okDocs : d.name = "a" /\ d.id = 2 /\ d.metadata = "m2"
    /\ \E d \in okDocs : d.name = "b" /\ d.id = 2 /\ d.metadata = "m3"
    /\ \E p \in Procs :
         /\ ret[p].op = "search" /\ ret[p].tag = "Ok" /\ ret[p].name = "b"
         /\ Len(ret[p].out) = 1
         /\ ret[p].out[1].id = 2 /\ ret[p].out[1].metadata = "m3" /\ ret[p].out[1].content = "c3"

\* C15: the id allocator starts at 1 and is atomic: the first id minted is 1,
\* the ids minted by create_collection and add_document calls, in any
\* interleaving, are pairwise distinct, and a mint that follows another mint
\* returns a strictly larger id; the counter is always above every minted id.
C15_AllocatorAtomic ==
    /\ Len(minted) >= 1 => minted[1] = 1
    /\ \A i, j \in 1..Len(minted) : i < j => minted[i] < minted[j]
    /\ \A i \in 1..Len(minted) : minted[i] < id_counter
    /\ \A e \in DOMAIN meta : \E i \in 1..Len(minted) : minted[i] = meta[e].id

\* C15 witness: a create_collection and an add_document without a client id
\* hold freshly minted ids at the same time, after an earlier mint.
C15_Witness ==
    /\ Len(minted) = 3
    /\ \E p, q \in Procs :
         /\ pc[p] = "cc_insert" /\ pc[q] = "ad_write" /\ call[q].id = NoId
         /\ loc[p].id # loc[q].id

\* The document ids the index search of process p has just returned.
HitIds(p) ==
    IF pc'[p] = "se_meta" THEN {loc'[p].hits[i].d_id : i \in 1..Len(loc'[p].hits)} ELSE {}

\* C16: a search that runs concurrently with add_document calls on its
\* collection is consistent with a serialization of them: when top_k covers
\* the index, its hits include every document whose add_document returned Ok
\* before the index was read (so before the search started or during it), and
\* every row (id, metadata, content) it returns is the payload of one
\* add_document call for that id, never the metadata of one call with the
\* content of another.
C16_SearchSeesSerialization ==
    [][\A p \in Procs :
         /\ (pc[p] = "se_index" /\ pc'[p] # "se_index"
               /\ call[p].top_k >= Len(index[loc[p].entry]))
               => \A d \in okDocs : d.entry = loc[p].entry => d.id \in HitIds(p)
         /\ SearchReturns(p) =>
               \A i \in 1..Len(ret'[p].out) :
                  \E d \in Committed(loc[p].entry) :
                     /\ d.id = ret'[p].out[i].id
                     /\ d.metadata = ret'[p].out[i].metadata
                     /\ d.content = ret'[p].out[i].content
    ]_vars

\* C17: every call ends by returning a success value or an error value: no
\* call ends in a panic, also when a KV operation of create_collection,
\* add_document or of the payload lookups of search fails.
C17_NoPanic ==
    \A p \in Procs : ret[p].op # "none" => ret[p].tag \in {"Ok", "Err"}

\* The lower-case spelling the parser accepts for a metric.
Spelling(m) ==
    IF m = "Euclidean" THEN <<"e", "u", "c", "l", "i", "d", "e", "a", "n">>
    ELSE IF m = "Cosine" THEN <<"c", "o", "s", "i", "n", "e">>
    ELSE <<"d", "o", "t">>

\* C18: from_str returns Some(Euclidean), Some(Cosine), Some(Dot) exactly for
\* the strings that spell "euclidean", "cosine", "dot" in some mix of upper-
\* and lower-case letters and None for every other string; the name of each
\* metric parses to that metric.
C18_FromStrCaseInsensitive ==
    \A p \in Procs : ret[p].op = "from_str" =>
        LET s == ret[p].s
            v == ret[p].value
        IN  /\ v \in Metrics \cup {NoMetric}
            /\ \A m \in Metrics : v = m <=> s \in CaseVariants(Spelling(m))
            /\ \A m \in Metrics : s = MetricName(m) => v = m

\* C18 witness: a mixed-case spelling of "cosine" has been parsed to Cosine.
C18_Witness ==
    \E p \in Procs :
        /\ ret[p].op = "from_str" /\ ret[p].s = <<"c", "O", "s", "I", "n", "E">>
        /\ ret[p].value = "Cosine"

\* The locks a worker holds from one step to the next.
HeldLocks(w) ==
    (IF w \in regReaders THEN {<<"registry", 0>>} ELSE {})
      \cup (IF loc[w].meta_guard # 0 THEN {<<"meta", loc[w].meta_guard>>} ELSE {})

\* The entries whose metadata or index a step changes.
Touched == {e \in DOMAIN meta : meta'[e] # meta[e] \/ index'[e] # index[e]}

\* Lock discipline: the registry lock is taken by a worker that holds no
\* entry lock (registry first); an entry's metadata is read under the registry
\* lock only for the entry the registry lookup gave; a step works under the
\* locks of one entry at most; a worker waiting for the registry write lock
\* holds nothing.
LockOrder ==
    [][/\ \A w \in Workers :
            /\ (w \notin regReaders /\ w \in regReaders')
                  => (HeldLocks(w) = {} /\ loc'[w].meta_guard = 0)
            /\ pc[w] = "cc_insert" => HeldLocks(w) = {}
       /\ Cardinality(Touched) <= 1
       /\ \A w \in Workers : Cardinality({l[2] : l \in HeldLocks(w) \ {<<"registry", 0>>}}) <= 1
    ]_vars

\* Every call in progress returns.
Terminates == \A p \in Procs : (pc[p] # "idle") ~> (pc[p] = "idle")

\* C19: no deadlock: locks are taken in the order registry, entry.meta,
\* entry.index, no worker holds locks of two entries, and under fair
\* scheduling every call of create_collection, get_collection_by_name,
\* list_collections, add_document, add_documents, search and get_memory_stats
\* in progress returns, in every interleaving.
C19_NoDeadlock == LockOrder /\ Terminates

\* C19 witness: a create_collection waits for the registry write lock while
\* a reader holds the registry read lock.
C19_Witness ==
    \E p, q \in Procs : pc[p] = "cc_insert" /\ q \in regReaders /\ pc[q] \in {"li_read", "st_read", "gc_meta"}

\* Positions whose next step is a KV operation or an ANN operation.
IoPositions == {"cc_put", "ad_write", "ad_index", "se_index", "se_meta", "se_content"}

\* C20: a worker about to execute a KV operation (put, batch write, get) or
\* an ANN insert or search holds neither the registry lock nor a meta lock;
\* the registry read lock is held from one step to the next only inside
\* get_collection_by_name, list_collections and get_memory_stats, never by
\* add_document, add_documents or search past their lookup.
C20_NoLockAcrossIo ==
    \A w \in Workers :
        /\ pc[w] \in IoPositions => HeldLocks(w) = {}
        /\ w \in regReaders => pc[w] \in {"gc_meta", "li_read", "st_read"}
        /\ pc[w] \in {"ad_dim", "ad_mint", "ad_count", "se_dim", "bd_wait", "ck_ready", "ck_next", "ck_done"}
              => w \notin regReaders

\* C20 witness: an add_document is about to commit its KV batch while another
\* caller holds the registry read lock.
C20_Witness ==
    \E p, q \in Procs : pc[p] = "ad_write" /\ pc[q] = "li_read" /\ q \in regReaders

\* C21: every collection in the registry has dim >= 1: create_collection
\* never registers a collection whose dim is 0.
C21_DimAtLeastOne ==
    \A n \in DOMAIN collections : meta[collections[n]].dim >= 1

\* C22: optimize_hnsw_params(dim) is (16, 32, 150) for dim <= 384,
\* (12, 24, 150) for 384 < dim <= 768 and (8, 16, 100) for dim > 768, and the
\* search width is the larger of 2 * top_k and 50.
C22_HnswParams ==
    \A p \in Procs :
        /\ ret[p].op = "optimize_hnsw_params" =>
              /\ ret[p].dim <= 384 => ret[p].value = <<16, 32, 150>>
              /\ (384 < ret[p].dim /\ ret[p].dim <= 768) => ret[p].value = <<12, 24, 150>>
              /\ ret[p].dim > 768 => ret[p].value = <<8, 16, 100>>
        /\ ret[p].op = "ef_search" =>
              /\ ret[p].value >= 50 /\ ret[p].value >= 2 * ret[p].top_k
              /\ ret[p].value \in {50, 2 * ret[p].top_k}

\* C22 witness: the parameters have been computed for dim 768, the largest
\* dim of the middle row.
C22_Witness ==
    \E p \in Procs : /\ ret[p].op = "optimize_hnsw_params" /\ ret[p].dim = 768
                     /\ ret[p].value = <<12, 24, 150>>

\* C23: in every state, intermediate states of concurrent add_document calls
\* included, each collection's doc_count is at most the number of ANN inserts
\* done on its index, which is at most the number of document batches
\* committed to the KV store for it.
C23_CountBelowIndexBelowKv ==
    \A e \in DOMAIN meta :
        /\ meta[e].doc_count <= Len(index[e])
        /\ Len(index[e]) <= Commits(e)

\* C23 witness: two add_document calls on one collection, one between its
\* ANN insert and its count update, the other between its KV commit and its
\* ANN insert: doc_count 0, one insert, two commits.
C23_Witness ==
    \E v, w \in Workers :
        /\ pc[v] = "ad_count" /\ pc[w] = "ad_index"
        /\ loc[v].entry = loc[w].entry
        /\ meta[loc[v].entry].doc_count = 0
        /\ Len(index[loc[v].entry]) = 1
        /\ Commits(loc[v].entry) = 2
====
